---- MODULE Spec2Model ----
(***************************************************************************)
(* Model of tools/flp_parse_report.py: the command line tool that parses   *)
(* an FLP project with pyflp, counts parsed and unknown events, and writes *)
(* an HTML coverage report.                                                *)
(*                                                                         *)
(* Text is a sequence of one-character strings.  A Python float is the     *)
(* binary64 value it denotes, held as a fixed-point number in base 2^10    *)
(* (most significant digit first) so that every rounding of the            *)
(* interpreter is reproduced bit for bit.                                  *)
(***************************************************************************)
EXTENDS Integers, Sequences, FiniteSets, TLC

(***************************************************************************)
(* Bounds of the model.                                                    *)
(***************************************************************************)
MaxEvents == 3

MaxTop == 2

(***************************************************************************)
(* binary64 arithmetic, as far as _pct and build_report use it.            *)
(*                                                                         *)
(* A value v with 0 <= v < Base whose binary expansion ends at or before   *)
(* Base^-FracLimbs is the sequence x of NLimbs digits in base Base with    *)
(*   v = SUM x[i] * Base^(1 - i),  i \in 1..NLimbs                         *)
(* (x[1] is the integer part).  Every double the program computes is such  *)
(* a value: the quotients lie in [1/MaxEvents, 1], the percentages in      *)
(* [0, 100].  Bit i of x, counted from the most significant bit of x[1],   *)
(* has weight 2^(LimbBits - i).                                            *)
(***************************************************************************)
Mantissa == 53

LimbBits == 10

FracLimbs == 6

Base == 2 ^ LimbBits

NLimbs == 1 + FracLimbs

Width == NLimbs * LimbBits

\* The digits of f, computed once and kept as a tuple.
Digits(f) == SubSeq(f, 1, NLimbs)

ZeroFix == Digits([i \in 1..NLimbs |-> 0])

\* int -> float conversion of a small non-negative integer (exact).
FromInt(n) == Digits([i \in 1..NLimbs |-> IF i = 1 THEN n ELSE 0])

\* Bit i of x.
BitAt(x, i) ==
  (x[((i - 1) \div LimbBits) + 1] \div (2 ^ (LimbBits - 1 - ((i - 1) % LimbBits)))) % 2

\* Remainder of the long division n / d after j fractional digits.
RECURSIVE DivRem(_, _, _)
DivRem(n, d, j) == IF j = 0 THEN n % d ELSE (Base * DivRem(n, d, j - 1)) % d

\* floor(n / d * Base^FracLimbs), for 0 <= n <= d, d > 0.
DivFix(n, d) ==
  Digits([i \in 1..NLimbs |-> IF i = 1 THEN n \div d
                       ELSE (Base * DivRem(n, d, i - 2)) \div d])

\* Whether the long division left a non-zero remainder below the last digit.
DivSticky(n, d) == DivRem(n, d, FracLimbs) # 0

\* Carry out of digits i..NLimbs of x * k.
RECURSIVE MulCarry(_, _, _)
MulCarry(x, k, i) ==
  IF i > NLimbs THEN 0 ELSE (x[i] * k + MulCarry(x, k, i + 1)) \div Base

\* x * k, exact, for a small non-negative integer k.
MulSmall(x, k) ==
  Digits([i \in 1..NLimbs |-> (x[i] * k + MulCarry(x, k, i + 1)) % Base])

\* Carry out of digits i..NLimbs of x + y.
RECURSIVE AddCarry(_, _, _)
AddCarry(x, y, i) ==
  IF i > NLimbs THEN 0 ELSE (x[i] + y[i] + AddCarry(x, y, i + 1)) \div Base

\* x + y, exact.
AddFix(x, y) ==
  Digits([i \in 1..NLimbs |-> (x[i] + y[i] + AddCarry(x, y, i + 1)) % Base])

\* Borrow out of digits i..NLimbs of x - y.
RECURSIVE SubBorrow(_, _, _)
SubBorrow(x, y, i) ==
  IF i > NLimbs THEN 0
  ELSE IF x[i] - y[i] - SubBorrow(x, y, i + 1) < 0 THEN 1 ELSE 0

\* x - y, exact, for x >= y.
SubFix(x, y) ==
  Digits([i \in 1..NLimbs |-> (x[i] - y[i] - SubBorrow(x, y, i + 1) + Base) % Base])

\* x < y.
LessFix(x, y) ==
  \E i \in 1..NLimbs : /\ x[i] < y[i]
                       /\ \A j \in 1..(i - 1) : x[j] = y[j]

\* Index of the leading one bit, 0 for zero.
LeadBit(x) ==
  IF \A i \in 1..NLimbs : x[i] = 0 THEN 0
  ELSE CHOOSE i \in 1..Width :
         BitAt(x, i) = 1 /\ \A j \in 1..(i - 1) : BitAt(x, j) = 0

\* x with the bits after bit p cleared.
TruncateAt(x, p) ==
  Digits([i \in 1..NLimbs |-> IF i * LimbBits <= p THEN x[i]
     ELSE IF (i - 1) * LimbBits >= p THEN 0
     ELSE (x[i] \div (2 ^ (i * LimbBits - p))) * (2 ^ (i * LimbBits - p))])

\* One unit in bit p.
UnitAt(p) ==
  Digits([i \in 1..NLimbs |-> IF i = ((p - 1) \div LimbBits) + 1
     THEN 2 ^ (LimbBits - 1 - ((p - 1) % LimbBits)) ELSE 0])

\* Round to nearest, ties to even, at Mantissa significant bits.  sticky says
\* that the exact value has non-zero bits below the last digit of x.
RoundNearestEven(x, sticky) ==
  LET lead == LeadBit(x)
      last == lead + Mantissa - 1
  IN IF lead = 0 \/ last >= Width THEN x
     ELSE LET rest == sticky \/ \E i \in (last + 2)..Width : BitAt(x, i) = 1
              up   == BitAt(x, last + 1) = 1 /\ (rest \/ BitAt(x, last) = 1)
          IN IF up THEN AddFix(TruncateAt(x, last), UnitAt(last))
             ELSE TruncateAt(x, last)

\* What an expression that raised ZeroDivisionError stands for.
ZeroDivisionError == <<"ZeroDivisionError">>

\* Python's int / int: the correctly rounded quotient; d = 0 raises.
TrueDiv(n, d) ==
  IF d = 0 THEN ZeroDivisionError
  ELSE RoundNearestEven(DivFix(n, d), DivSticky(n, d))

\* float * int-valued float, float - float, float + float.
FMul(x, k) ==
  IF x = ZeroDivisionError THEN x ELSE RoundNearestEven(MulSmall(x, k), FALSE)

FSub(x, y) ==
  IF y = ZeroDivisionError THEN y ELSE RoundNearestEven(SubFix(x, y), FALSE)

FAdd(x, y) == RoundNearestEven(AddFix(x, y), FALSE)

Hundred == FromInt(100)

(***************************************************************************)
(* Text.                                                                   *)
(***************************************************************************)
Digit(d) == <<"0", "1", "2", "3", "4", "5", "6", "7", "8", "9">>[d + 1]

\* str(n) of a non-negative int.
RECURSIVE StrNat(_)
StrNat(n) == IF n < 10 THEN <<Digit(n)>>
             ELSE Append(StrNat(n \div 10), Digit(n % 10))

\* str(n) / f"{n}" of an int.
Str(n) == IF n < 0 THEN <<"-">> \o StrNat(-n) ELSE StrNat(n)

\* s.replace(ch, repl) for a one-character ch.
RECURSIVE Replace(_, _, _)
Replace(s, ch, repl) ==
  IF s = <<>> THEN <<>>
  ELSE (IF Head(s) = ch THEN repl ELSE <<Head(s)>>) \o Replace(Tail(s), ch, repl)

\* html.escape(s, quote=False): the quotes stay as they are.
escape_without_quotes(s) ==
  Replace(
    Replace(
      Replace(s, "&", <<"&", "a", "m", "p", ";">>),
      "<", <<"&", "l", "t", ";">>),
    ">", <<"&", "g", "t", ";">>)

\* html.escape(s) with quote=True: "&" is replaced first.
escape(s) ==
  Replace(
    Replace(
      Replace(
        Replace(
          Replace(s, "&", <<"&", "a", "m", "p", ";">>),
          "<", <<"&", "l", "t", ";">>),
        ">", <<"&", "g", "t", ";">>),
      "\"", <<"&", "q", "u", "o", "t", ";">>),
    "'", <<"&", "#", "x", "2", "7", ";">>)

\* The fractional part of x.
FracPart(x) == Digits([i \in 1..NLimbs |-> IF i = 1 THEN 0 ELSE x[i]])

\* f"{x:.2f}": the exact value rounded to hundredths, ties to even.
Format2f(x) ==
  LET tenths == MulSmall(FracPart(x), 10)
      hunds  == MulSmall(FracPart(tenths), 10)
      rem    == FracPart(hunds)
      half   == Digits([i \in 1..NLimbs |-> IF i = 2 THEN Base \div 2 ELSE 0])
      cents  == x[1] * 100 + tenths[1] * 10 + hunds[1]
      up     == LessFix(half, rem) \/ (rem = half /\ cents % 2 = 1)
      shown  == IF up THEN cents + 1 ELSE cents
  IN StrNat(shown \div 100)
       \o <<".", Digit((shown % 100) \div 10), Digit(shown % 10)>>

(***************************************************************************)
(* Events, as pyflp.parse hands them over.                                 *)
(*                                                                         *)
(* An event is [id, type, events]: id is [value, named, name] (an EventID  *)
(* member has a name, a bare int has none), type is the name of the        *)
(* event's class, and events is the list a VSTPluginEvent answers to       *)
(* event["events"], each sub-event [id |-> [isInt, value], data |-> len].  *)
(***************************************************************************)
UnknownDataEvent == <<"U", "n", "k">>

VSTPluginEvent == <<"V", "S", "T">>

\* isinstance(event, cls); neither class has a subclass in pyflp.
IsInstance(event, cls) == event.type = cls

_event_id_name(event) ==
  IF ~event.id.named THEN Str(event.id.value) ELSE event.id.name

(***************************************************************************)
(* collections.Counter: the keys in first-seen order, each with its count. *)
(***************************************************************************)
CounterAdd(c, k) ==
  IF \E i \in 1..Len(c) : c[i].key = k
  THEN LET i == CHOOSE j \in 1..Len(c) : c[j].key = k
       IN [c EXCEPT ![i].count = @ + 1]
  ELSE Append(c, [key |-> k, count |-> 1])

RECURSIVE Counter(_)
Counter(keys) ==
  IF keys = <<>> THEN <<>>
  ELSE CounterAdd(Counter(SubSeq(keys, 1, Len(keys) - 1)), keys[Len(keys)])

\* s[:n]
SlicePrefix(s, n) ==
  IF n >= 0 THEN SubSeq(s, 1, IF n < Len(s) THEN n ELSE Len(s))
  ELSE SubSeq(s, 1, IF Len(s) + n > 0 THEN Len(s) + n ELSE 0)

\* An unstable sort: an item goes in front of the earlier items of its count.
InsertDescendingUnstable(sorted, e) ==
  LET at == IF \E i \in 1..Len(sorted) : sorted[i].count <= e.count
            THEN CHOOSE i \in 1..Len(sorted) :
                   /\ sorted[i].count <= e.count
                   /\ \A j \in 1..(i - 1) : sorted[j].count > e.count
            ELSE Len(sorted) + 1
  IN SubSeq(sorted, 1, at - 1) \o <<e>> \o SubSeq(sorted, at, Len(sorted))

\* sorted(items, key=itemgetter(1), reverse=True): stable, so an item goes
\* behind every earlier item whose count is not smaller.
InsertDescending(sorted, e) ==
  LET at == IF \E i \in 1..Len(sorted) : sorted[i].count < e.count
            THEN CHOOSE i \in 1..Len(sorted) :
                   /\ sorted[i].count < e.count
                   /\ \A j \in 1..(i - 1) : sorted[j].count >= e.count
            ELSE Len(sorted) + 1
  IN SubSeq(sorted, 1, at - 1) \o <<e>> \o SubSeq(sorted, at, Len(sorted))

RECURSIVE SortedDescending(_)
SortedDescending(items) ==
  IF items = <<>> THEN <<>>
  ELSE InsertDescending(SortedDescending(SubSeq(items, 1, Len(items) - 1)),
                        items[Len(items)])

\* max(items, key=itemgetter(1)): the first item with the largest count.
MaxFirst(items) ==
  items[CHOOSE i \in 1..Len(items) :
          /\ \A j \in 1..Len(items) : items[j].count <= items[i].count
          /\ \A j \in 1..(i - 1) : items[j].count < items[i].count]

\* Order of the heap entries (k, order, elem): by k, then by order.
EntryLess(a, b) == a.k < b.k \/ (a.k = b.k /\ a.order < b.order)

HeapTop(heap) == CHOOSE t \in heap : \A u \in heap : u = t \/ EntryLess(t, u)

\* The loop with "top <= k": an item as frequent as the least kept one
\* pushes it out.
RECURSIVE NLargestLoopNotStrict(_, _, _, _, _)
NLargestLoopNotStrict(items, i, heap, top, order) ==
  IF i > Len(items) THEN heap
  ELSE IF top <= items[i].count
  THEN LET replaced == (heap \ {HeapTop(heap)})
                         \cup {[k |-> items[i].count, order |-> order, elem |-> i]}
       IN NLargestLoopNotStrict(items, i + 1, replaced, HeapTop(replaced).k,
                                order - 1)
  ELSE NLargestLoopNotStrict(items, i + 1, heap, top, order)

\* The loop of heapq.nlargest over items[i..]: top is the smallest k of the
\* heap as last read, order the next tie-breaker.
RECURSIVE NLargestLoop(_, _, _, _, _)
NLargestLoop(items, i, heap, top, order) ==
  IF i > Len(items) THEN heap
  ELSE IF top < items[i].count
  THEN LET replaced == (heap \ {HeapTop(heap)})
                         \cup {[k |-> items[i].count, order |-> order, elem |-> i]}
       IN NLargestLoop(items, i + 1, replaced, HeapTop(replaced).k, order - 1)
  ELSE NLargestLoop(items, i + 1, heap, top, order)

\* result.sort(reverse=True), then the elements.
RECURSIVE HeapDescending(_, _)
HeapDescending(items, heap) ==
  IF heap = {} THEN <<>>
  ELSE LET m == CHOOSE t \in heap : \A u \in heap : u = t \/ EntryLess(u, t)
       IN <<items[m.elem]>> \o HeapDescending(items, heap \ {m})

\* heapq.nlargest(n, items, key=itemgetter(1))
nlargest(n, items) ==
  IF n = 1 THEN (IF items = <<>> THEN <<>> ELSE <<MaxFirst(items)>>)
  ELSE IF n >= Len(items) THEN SlicePrefix(SortedDescending(items), n)
  ELSE LET first == {[k |-> items[i].count, order |-> 1 - i, elem |-> i] :
                       i \in 1..(IF n < 0 THEN 0 ELSE n)}
       IN IF first = {} THEN <<>>
          ELSE HeapDescending(items,
                 NLargestLoop(items, n + 1, first, HeapTop(first).k, -n))

\* Counter.most_common(n), n an int.
most_common(c, n) == nlargest(n, c)

(***************************************************************************)
(* What the program is run on: the events pyflp.parse may return, the      *)
(* paths and the --top values the command line may carry.                  *)
(***************************************************************************)
NamedId(v, n) == [value |-> v, named |-> TRUE, name |-> n]

BareId(v) == [value |-> v, named |-> FALSE, name |-> <<>>]

RawSub(v, n) == [id |-> [isInt |-> TRUE, value |-> v], data |-> n]

SymSub(v, n) == [id |-> [isInt |-> FALSE, value |-> v], data |-> n]

\* A known event of another class that also carries nested entries, two
\* unknown events, and a plugin event with and without sub-events.
SampleEvents ==
  { [id |-> NamedId(2, <<"<", "&">>), type |-> <<"<", "T", ">">>,
     events |-> <<RawSub(7, 1)>>],
    [id |-> BareId(3), type |-> UnknownDataEvent, events |-> <<>>],
    [id |-> BareId(14), type |-> UnknownDataEvent, events |-> <<>>],
    [id |-> NamedId(5, <<"p">>), type |-> VSTPluginEvent,
     events |-> <<RawSub(7, 1), RawSub(8, 2), SymSub(8, 2), RawSub(9, 1),
                  RawSub(9, 3)>>],
    [id |-> NamedId(5, <<"p">>), type |-> VSTPluginEvent, events |-> <<>>] }

RECURSIVE SeqsUpTo(_, _)
SeqsUpTo(S, n) ==
  IF n = 0 THEN {<<>>}
  ELSE LET shorter == SeqsUpTo(S, n - 1)
       IN shorter \cup
            {Append(q, e) : q \in {r \in shorter : Len(r) = n - 1}, e \in S}

EventLists == SeqsUpTo(SampleEvents, MaxEvents)

SamplePaths == {<<"/", "a">>, <<"<", "&", "\"">>}

TopValues == (-1)..MaxTop

Cwd == <<"/", "w">>

\* Path.resolve(): an absolute path stays, a relative one goes under cwd.
resolve(path) ==
  IF path # <<>> /\ Head(path) = "/" THEN path ELSE Cwd \o <<"/">> \o path

(***************************************************************************)
(* build_report, lines 59-80: the counts.                                  *)
(***************************************************************************)
unknown_top_level(events) ==
  SelectSeq(events, LAMBDA e : IsInstance(e, UnknownDataEvent))

\* The unknown events are not taken off.
parsed_events_all(events) == Len(events)

parsed_events(events) == Len(events) - Len(unknown_top_level(events))

event_type_counts(events) ==
  Counter([i \in 1..Len(events) |-> events[i].type])

top_level_id_counts(events) ==
  Counter([i \in 1..Len(events) |->
             <<events[i].id.value, _event_id_name(events[i]), events[i].type>>])

unknown_top_level_id_counts(events) ==
  Counter([i \in 1..Len(unknown_top_level(events)) |->
             unknown_top_level(events)[i].id.value])

\* Lines 74-76: the (id, len(data)) pairs of the sub-events whose id is an int.
RawSubevents(subs) ==
  LET raw == SelectSeq(subs, LAMBDA sub : sub.id.isInt)
  IN [j \in 1..Len(raw) |-> <<raw[j].id.value, raw[j].data>>]

\* The walk without the isinstance test: every event's nested entries count.
RECURSIVE unknown_subevents_of_any_event(_)
unknown_subevents_of_any_event(events) ==
  IF events = <<>> THEN <<>>
  ELSE RawSubevents(Head(events).events)
         \o unknown_subevents_of_any_event(Tail(events))

\* The (sub id, data length) pairs of the sub-events whose id is a plain int.
RECURSIVE unknown_vst_subevents(_)
unknown_vst_subevents(events) ==
  IF events = <<>> THEN <<>>
  ELSE (IF IsInstance(Head(events), VSTPluginEvent)
        THEN RawSubevents(Head(events).events)
        ELSE <<>>)
         \o unknown_vst_subevents(Tail(events))

unknown_vst_counts(events) ==
  Counter([j \in 1..Len(unknown_vst_subevents(events)) |->
             unknown_vst_subevents(events)[j][1]])

_pct(numerator, denominator) ==
  IF denominator = 0 THEN ZeroFix
  ELSE FMul(TrueDiv(numerator, denominator), 100)

\* 100.0 - parsed_pct, whatever total_events is.
unknown_pct_unguarded(pct, total) == FSub(Hundred, pct)

\* 100.0 - parsed_pct if total_events else 0.0
unknown_pct(pct, total) == IF total # 0 THEN FSub(Hundred, pct) ELSE ZeroFix

\* The unknown percentage as a quotient of its own.
PercentagesEachDivided(parsed, total) ==
  [parsed_pct |-> _pct(parsed, total), unknown_pct |-> _pct(total - parsed, total)]

\* Lines 79-80.
Percentages(parsed, total) ==
  [parsed_pct  |-> _pct(parsed, total),
   unknown_pct |-> unknown_pct(_pct(parsed, total), total)]

(***************************************************************************)
(* build_report, lines 82-243: the document.  A table body is a sequence   *)
(* of rows; a row is its cells, and a placeholder row spans the table.     *)
(***************************************************************************)
Row(cells) == [colspan |-> 1, cells |-> cells]

NoEvents(span) ==
  [colspan |-> span, cells |-> <<<<"N", "o", " ", "e", "v", "e", "n", "t", "s">>>>]

None(span) == [colspan |-> span, cells |-> <<<<"N", "o", "n", "e">>>>]

\* The rows without the "if not rows" test.
RowsAsJoined(joined, placeholder) == joined

\* The joined rows, or the placeholder when the joined text is empty.
Rows(joined, placeholder) ==
  IF joined = <<>> THEN <<placeholder>> ELSE joined

type_rows(c, top_n) ==
  LET top == most_common(c, top_n)
  IN Rows(SubSeq([i \in 1..Len(top) |->
                    Row(<<escape(top[i].key), Str(top[i].count)>>)],
                 1, Len(top)),
          NoEvents(2))

id_rows(c, top_n) ==
  LET top == most_common(c, top_n)
  IN Rows(SubSeq([i \in 1..Len(top) |->
                    Row(<<Str(top[i].key[1]), escape(top[i].key[2]),
                          escape(top[i].key[3]), Str(top[i].count)>>)],
                 1, Len(top)),
          NoEvents(4))

unknown_top_level_rows(c, top_n) ==
  LET top == most_common(c, top_n)
  IN Rows(SubSeq([i \in 1..Len(top) |->
                    Row(<<Str(top[i].key), Str(top[i].count)>>)],
                 1, Len(top)),
          None(2))

unknown_vst_rows(c, top_n) ==
  LET top == most_common(c, top_n)
  IN Rows(SubSeq([i \in 1..Len(top) |->
                    Row(<<Str(top[i].key), Str(top[i].count)>>)],
                 1, Len(top)),
          None(2))

NoLocals ==
  [total_events |-> 0, unknown_top_level |-> <<>>, parsed_events |-> 0,
   event_type_counts |-> <<>>, top_level_id_counts |-> <<>>,
   unknown_top_level_id_counts |-> <<>>, unknown_vst_subevents |-> <<>>,
   unknown_vst_counts |-> <<>>, parsed_pct |-> ZeroFix, unknown_pct |-> ZeroFix]

\* The locals of build_report after line 80.
Locals(events) ==
  [total_events |-> Len(events),
   unknown_top_level |-> unknown_top_level(events),
   parsed_events |-> parsed_events(events),
   event_type_counts |-> event_type_counts(events),
   top_level_id_counts |-> top_level_id_counts(events),
   unknown_top_level_id_counts |-> unknown_top_level_id_counts(events),
   unknown_vst_subevents |-> unknown_vst_subevents(events),
   unknown_vst_counts |-> unknown_vst_counts(events),
   parsed_pct |-> Percentages(parsed_events(events), Len(events)).parsed_pct,
   unknown_pct |-> Percentages(parsed_events(events), Len(events)).unknown_pct]

NoTables == [types |-> <<>>, ids |-> <<>>, unknown_ids |-> <<>>, vst_ids |-> <<>>]

\* The four most_common(top_n) lists the row generators run over.
Tables(l, top_n) ==
  [types       |-> most_common(l.event_type_counts, top_n),
   ids         |-> most_common(l.top_level_id_counts, top_n),
   unknown_ids |-> most_common(l.unknown_top_level_id_counts, top_n),
   vst_ids     |-> most_common(l.unknown_vst_counts, top_n)]

NoDocument ==
  [file |-> <<>>, total_events |-> <<>>, parsed_events |-> <<>>,
   parsed_pct |-> <<>>, unknown_events |-> <<>>, unknown_pct |-> <<>>,
   unknown_class |-> "", vst_subevents |-> <<>>, vst_class |-> "",
   top_n |-> <<>>, type_rows |-> <<>>, id_rows |-> <<>>,
   unknown_top_level_rows |-> <<>>, unknown_vst_rows |-> <<>>]

\* The text the template is filled with, hole by hole.
Document(flp_path, top_n, l) ==
  [file           |-> escape(resolve(flp_path)),
   total_events   |-> Str(l.total_events),
   parsed_events  |-> Str(l.parsed_events),
   parsed_pct     |-> Format2f(l.parsed_pct),
   unknown_events |-> Str(Len(l.unknown_top_level)),
   unknown_pct    |-> Format2f(l.unknown_pct),
   unknown_class  |-> IF l.unknown_top_level # <<>> THEN "bad" ELSE "ok",
   vst_subevents  |-> Str(Len(l.unknown_vst_subevents)),
   vst_class      |-> IF l.unknown_vst_subevents # <<>> THEN "warn" ELSE "ok",
   top_n          |-> Str(top_n),
   type_rows      |-> type_rows(l.event_type_counts, top_n),
   id_rows        |-> id_rows(l.top_level_id_counts, top_n),
   unknown_top_level_rows |->
     unknown_top_level_rows(l.unknown_top_level_id_counts, top_n),
   unknown_vst_rows |-> unknown_vst_rows(l.unknown_vst_counts, top_n)]

(***************************************************************************)
(* One run of main().                                                      *)
(***************************************************************************)
VARIABLES
  pc,           \* where main() is
  args,         \* argparse's namespace: flp_file, top
  events,       \* list(project.events)
  locals,       \* build_report's counts
  tables,       \* build_report's most_common lists
  report_html,  \* build_report's result
  output_file,  \* the file at args.output: absent, old, truncated or report
  stdout,       \* whether the "Report written to" line was printed
  error,        \* what ended the run, "" while none
  exit_status   \* the process's exit status, -1 while running

vars == <<pc, args, events, locals, tables, report_html, output_file, stdout,
          error, exit_status>>

NoArgs == [flp_file |-> <<>>, top |-> 25]

\* The output path may or may not name a file of an earlier run.
Init ==
  /\ pc = "parse_args"
  /\ args = NoArgs
  /\ events = <<>>
  /\ locals = NoLocals
  /\ tables = NoTables
  /\ report_html = NoDocument
  /\ output_file \in {"absent", "old"}
  /\ stdout = FALSE
  /\ error = ""
  /\ exit_status = -1

\* An uncaught exception or SystemExit(message): status 1 (argparse: 2).
Abort(what, status) ==
  /\ pc' = "exited"
  /\ error' = what
  /\ exit_status' = status

\* Line 264, accepted command line.
ParseArgs ==
  /\ pc = "parse_args"
  /\ \E path \in SamplePaths, top \in TopValues :
       args' = [flp_file |-> path, top |-> top]
  /\ pc' = "import"
  /\ UNCHANGED <<events, locals, tables, report_html, output_file, stdout,
                 error, exit_status>>

\* Line 264, rejected command line: argparse prints usage and exits.
ParseArgsFails ==
  /\ pc = "parse_args"
  /\ Abort("UsageError", 2)
  /\ UNCHANGED <<args, events, locals, tables, report_html, output_file, stdout>>

\* Lines 57, 27-42: pyflp is importable, at once or from the repository root.
ImportPyflp ==
  /\ pc = "import"
  /\ pc' = "parse"
  /\ UNCHANGED <<args, events, locals, tables, report_html, output_file, stdout,
                 error, exit_status>>

\* Lines 43-53: the second import fails too.
ImportPyflpFails ==
  /\ pc = "import"
  /\ Abort("DependencyUnavailable", 1)
  /\ UNCHANGED <<args, events, locals, tables, report_html, output_file, stdout>>

\* Lines 58-59: the parser returns the project's events.
Parse ==
  /\ pc = "parse"
  /\ events' \in EventLists
  /\ pc' = "count"
  /\ UNCHANGED <<args, locals, tables, report_html, output_file, stdout, error,
                 exit_status>>

\* The parser raises with the output file already opened for writing.
ParseFailsAfterOpen ==
  /\ pc = "parse"
  /\ \E what \in {"InputNotFound", "InputUnreadable", "ParseFailure"} :
       Abort(what, 1)
  /\ output_file' = "truncated"
  /\ UNCHANGED <<args, events, locals, tables, report_html, stdout>>

\* Line 58: the parser raises.
ParseFails ==
  /\ pc = "parse"
  /\ \E what \in {"InputNotFound", "InputUnreadable", "ParseFailure"} :
       Abort(what, 1)
  /\ UNCHANGED <<args, events, locals, tables, report_html, output_file, stdout>>

\* Lines 59-80.
Count ==
  /\ pc = "count"
  /\ IF _pct(parsed_events(events), Len(events)) = ZeroDivisionError
     THEN /\ Abort("ZeroDivisionError", 1)
          /\ UNCHANGED locals
     ELSE /\ locals' = Locals(events)
          /\ pc' = "render"
          /\ UNCHANGED <<error, exit_status>>
  /\ UNCHANGED <<args, events, tables, report_html, output_file, stdout>>

\* Lines 82-243, and the return to main.
Render ==
  /\ pc = "render"
  /\ tables' = Tables(locals, args.top)
  /\ report_html' = Document(args.flp_file, args.top, locals)
  /\ pc' = "write"
  /\ UNCHANGED <<args, events, locals, output_file, stdout, error, exit_status>>

\* Lines 267-269.
WriteText ==
  /\ pc = "write"
  /\ output_file' = "report"
  /\ stdout' = TRUE
  /\ pc' = "exited"
  /\ exit_status' = 0
  /\ UNCHANGED <<args, events, locals, tables, report_html, error>>

\* Line 267 raises: the file could not be opened, or it was opened (created
\* or emptied) and the text could not be encoded or written out.
WriteTextFails ==
  /\ pc = "write"
  /\ \/ UNCHANGED output_file
     \/ output_file' = "truncated"
  /\ Abort("OutputWriteFailure", 1)
  /\ UNCHANGED <<args, events, locals, tables, report_html, stdout>>

Next ==
  \/ ParseArgs
  \/ ParseArgsFails
  \/ ImportPyflp
  \/ ImportPyflpFails
  \/ Parse
  \/ ParseFails
  \/ Count
  \/ Render
  \/ WriteText
  \/ WriteTextFails

Spec == Init /\ [][Next]_vars

(***************************************************************************)
(* What the claims speak of, said of the events themselves: the keys a     *)
(* table counts, each with the place where it occurs.                      *)
(***************************************************************************)
\* build_report has its counts.
Counted == pc \in {"render", "write"} \/ (pc = "exited" /\ error \in {"", "OutputWriteFailure"})

\* build_report has returned its document.
Rendered == pc = "write" \/ (pc = "exited" /\ error \in {"", "OutputWriteFailure"})

Opaque(e) == e.type = UnknownDataEvent

Container(e) == e.type = VSTPluginEvent

TypeOccurrences == {<<i, events[i].type>> : i \in 1..Len(events)}

IdOccurrences ==
  {<<i, <<events[i].id.value,
          IF events[i].id.named THEN events[i].id.name ELSE Str(events[i].id.value),
          events[i].type>>>> : i \in 1..Len(events)}

UnknownIdOccurrences ==
  {<<i, events[i].id.value>> : i \in {j \in 1..Len(events) : Opaque(events[j])}}

\* The nested entries with a raw numeric id, of the container records only;
\* entry j of record i has place 100 * i + j (a record has fewer than 100).
NestedOccurrences ==
  UNION {{<<100 * i + j, events[i].events[j].id.value>> :
            j \in {k \in 1..Len(events[i].events) : events[i].events[k].id.isInt}} :
         i \in {m \in 1..Len(events) : Container(events[m])}}

KeysOf(occ) == {o[2] : o \in occ}

CountOf(occ, k) == Cardinality({o \in occ : o[2] = k})

FirstOf(occ, k) ==
  CHOOSE at \in {o[1] : o \in {q \in occ : q[2] = k}} :
    \A o \in occ : o[2] = k => at <= o[1]

\* k1 ranks before k2: more frequent, or as frequent and seen first.
Before(occ, k1, k2) ==
  \/ CountOf(occ, k1) > CountOf(occ, k2)
  \/ CountOf(occ, k1) = CountOf(occ, k2) /\ FirstOf(occ, k1) < FirstOf(occ, k2)

\* The full ranked table of the keys of occ.
Ranked(occ) ==
  [r \in 1..Cardinality(KeysOf(occ)) |->
     LET k == CHOOSE key \in KeysOf(occ) :
                Cardinality({other \in KeysOf(occ) : Before(occ, other, key)}) = r - 1
     IN [key |-> k, count |-> CountOf(occ, k)]]

\* The first n entries of a table (none for n <= 0).
FirstN(t, n) ==
  [i \in 1..(IF n < 0 THEN 0 ELSE IF n < Len(t) THEN n ELSE Len(t)) |-> t[i]]

\* The entries of t are rows of the keys of occ with their true counts, in
\* descending order of count, equal counts in first-seen order.
InRankOrder(t, occ) ==
  /\ \A i \in 1..Len(t) : /\ t[i].key \in KeysOf(occ)
                          /\ t[i].count = CountOf(occ, t[i].key)
  /\ \A i, j \in 1..Len(t) :
       i < j => /\ t[i].count >= t[j].count
                /\ t[i].count = t[j].count =>
                     FirstOf(occ, t[i].key) < FirstOf(occ, t[j].key)

\* The data rows of a table body show the counts of t, row by row.
ShowsCounts(rows, t) ==
  t # <<>> => /\ Len(rows) = Len(t)
              /\ \A i \in 1..Len(t) :
                   rows[i].cells[Len(rows[i].cells)] = Str(t[i].count)

IsPlaceholder(rows, text, span) ==
  rows = <<[colspan |-> span, cells |-> <<text>>]>>

NoEventsText == <<"N", "o", " ", "e", "v", "e", "n", "t", "s">>

NoneText == <<"N", "o", "n", "e">>

\* Text free of raw markup: no <, >, " or ', and every & opens one of the
\* five entities html.escape writes.
StartsWith(s, i, prefix) ==
  /\ i + Len(prefix) - 1 <= Len(s)
  /\ \A j \in 1..Len(prefix) : s[i + j - 1] = prefix[j]

Entities ==
  {<<"&", "a", "m", "p", ";">>, <<"&", "l", "t", ";">>, <<"&", "g", "t", ";">>,
   <<"&", "q", "u", "o", "t", ";">>, <<"&", "#", "x", "2", "7", ";">>}

MarkupFree(s) ==
  \A i \in 1..Len(s) :
    /\ s[i] \notin {"<", ">", "\"", "'"}
    /\ s[i] = "&" => \E ent \in Entities : StartsWith(s, i, ent)

\* The text an escaped text stands for.
RECURSIVE Unescaped(_)
Unescaped(s) ==
  IF s = <<>> THEN <<>>
  ELSE IF StartsWith(s, 1, <<"&", "a", "m", "p", ";">>)
  THEN <<"&">> \o Unescaped(SubSeq(s, 6, Len(s)))
  ELSE IF StartsWith(s, 1, <<"&", "l", "t", ";">>)
  THEN <<"<">> \o Unescaped(SubSeq(s, 5, Len(s)))
  ELSE IF StartsWith(s, 1, <<"&", "g", "t", ";">>)
  THEN <<">">> \o Unescaped(SubSeq(s, 5, Len(s)))
  ELSE IF StartsWith(s, 1, <<"&", "q", "u", "o", "t", ";">>)
  THEN <<"\"">> \o Unescaped(SubSeq(s, 7, Len(s)))
  ELSE IF StartsWith(s, 1, <<"&", "#", "x", "2", "7", ";">>)
  THEN <<"'">> \o Unescaped(SubSeq(s, 7, Len(s)))
  ELSE <<Head(s)>> \o Unescaped(Tail(s))

HasMarkup(s) == \E i \in 1..Len(s) : s[i] \in {"<", ">", "&", "\"", "'"}

AllRows ==
  {report_html.type_rows, report_html.id_rows,
   report_html.unknown_top_level_rows, report_html.unknown_vst_rows}

(***************************************************************************)
(* The claims.                                                             *)
(***************************************************************************)

\* C1: once the events are counted, the parsed count plus the unknown count
\* is the number of events; the unknown count is the number of events of the
\* unknown class, the parsed count the number of all others, neither negative.
C1_CountsPartitionEvents ==
  Counted =>
    /\ locals.total_events = Len(events)
    /\ Len(locals.unknown_top_level)
         = Cardinality({i \in 1..Len(events) : Opaque(events[i])})
    /\ locals.parsed_events
         = Cardinality({i \in 1..Len(events) : ~Opaque(events[i])})
    /\ locals.parsed_events + Len(locals.unknown_top_level) = locals.total_events
    /\ locals.parsed_events >= 0
    /\ Len(locals.unknown_top_level) >= 0
    /\ report_html # NoDocument =>
         /\ report_html.total_events = Str(Len(events))
         /\ report_html.parsed_events = Str(locals.parsed_events)
         /\ report_html.unknown_events = Str(Len(locals.unknown_top_level))

C1_Witness ==
  /\ Counted
  /\ \E i, j \in 1..Len(events) : Opaque(events[i]) /\ ~Opaque(events[j])

\* C2 as stated: a run that ends in any failure leaves the output file as it
\* was.
C2_NoOutputOnAnyFailedRun ==
  (pc = "exited" /\ exit_status # 0) => output_file \in {"absent", "old"}

\* C2 as amended: the output file is touched only by the write that follows
\* a completed build_report, and a run that fails before that write (usage,
\* missing dependency, missing or unreadable input, parse failure) exits
\* non-zero with the output file as it was and nothing printed.
C2_OutputOnlyAfterBuildReport ==
  /\ output_file \notin {"absent", "old"} =>
       /\ pc = "exited"
       /\ error \in {"", "OutputWriteFailure"}
       /\ report_html # NoDocument
  /\ output_file = "report" <=> (pc = "exited" /\ exit_status = 0)
  /\ (pc = "exited" /\ error \notin {"", "OutputWriteFailure"}) =>
       /\ output_file \in {"absent", "old"}
       /\ exit_status # 0
       /\ ~stdout
       /\ report_html = NoDocument

C2_Witness ==
  /\ pc = "exited"
  /\ error = "ParseFailure"
  /\ output_file = "old"
  /\ exit_status = 1

\* C3: each of the four tables lists its entries in descending order of
\* count, entries of equal count in the order in which their keys first
\* occur among the events; the rows of the document show those counts.
C3_TablesInRankOrder ==
  Rendered =>
    /\ InRankOrder(tables.types, TypeOccurrences)
    /\ InRankOrder(tables.ids, IdOccurrences)
    /\ InRankOrder(tables.unknown_ids, UnknownIdOccurrences)
    /\ InRankOrder(tables.vst_ids, NestedOccurrences)
    /\ ShowsCounts(report_html.type_rows, tables.types)
    /\ ShowsCounts(report_html.id_rows, tables.ids)
    /\ ShowsCounts(report_html.unknown_top_level_rows, tables.unknown_ids)
    /\ ShowsCounts(report_html.unknown_vst_rows, tables.vst_ids)

\* Three kinds of event once each, the first two shown; and a more frequent
\* sub-event id shown before an earlier, rarer one.
C3_Witness ==
  /\ Rendered
  /\ Cardinality(KeysOf(TypeOccurrences)) = 3
  /\ Len(tables.types) = 2
  /\ tables.types[1].count = tables.types[2].count
  /\ Len(tables.vst_ids) = 2
  /\ tables.vst_ids[1].count > tables.vst_ids[2].count
  /\ FirstOf(NestedOccurrences, tables.vst_ids[1].key)
       > FirstOf(NestedOccurrences, tables.vst_ids[2].key)

\* C4: each table is the first top_n entries of the full ranked table of its
\* keys, order and counts as there; with top_n at least the number of
\* distinct keys every key is listed exactly once.
C4_TablesArePrefixOfRanking ==
  Rendered =>
    /\ tables.types = FirstN(Ranked(TypeOccurrences), args.top)
    /\ tables.ids = FirstN(Ranked(IdOccurrences), args.top)
    /\ tables.unknown_ids = FirstN(Ranked(UnknownIdOccurrences), args.top)
    /\ tables.vst_ids = FirstN(Ranked(NestedOccurrences), args.top)
    /\ args.top >= Cardinality(KeysOf(IdOccurrences)) =>
         /\ Len(tables.ids) = Cardinality(KeysOf(IdOccurrences))
         /\ {tables.ids[i].key : i \in 1..Len(tables.ids)} = KeysOf(IdOccurrences)
    /\ args.top >= Cardinality(KeysOf(TypeOccurrences)) =>
         /\ Len(tables.types) = Cardinality(KeysOf(TypeOccurrences))
         /\ {tables.types[i].key : i \in 1..Len(tables.types)}
              = KeysOf(TypeOccurrences)

\* A table cut short: more distinct sub-event ids than rows, the most
\* frequent id met last.
C4_Witness ==
  /\ Rendered
  /\ args.top = 2
  /\ Cardinality(KeysOf(NestedOccurrences)) = 3
  /\ Len(tables.vst_ids) = 2
  /\ tables.vst_ids[1].count = 2
  /\ Cardinality(KeysOf(TypeOccurrences)) > Len(tables.types)

\* C5: with no events both percentages are 0.0, shown as 0.00, and the run
\* does not end in a division by zero.
C5_ZeroEventsZeroPercent ==
  /\ error # "ZeroDivisionError"
  /\ (Counted /\ locals.total_events = 0) =>
       /\ locals.parsed_pct = ZeroFix
       /\ locals.unknown_pct = ZeroFix
       /\ Rendered => /\ report_html.parsed_pct = <<"0", ".", "0", "0">>
                      /\ report_html.unknown_pct = <<"0", ".", "0", "0">>

C5_Witness == Rendered /\ Len(events) = 0 /\ locals.total_events = 0

\* C6: with at least one event the two percentages add up to exactly 100.0
\* in double arithmetic, and the parsed percentage is 100 * parsed / total to
\* within the rounding of a double (their difference times total is below
\* 2^-40).
C6_PercentagesSumToHundred ==
  (Counted /\ locals.total_events > 0) =>
    /\ FAdd(locals.parsed_pct, locals.unknown_pct) = Hundred
    /\ LET scaled == MulSmall(locals.parsed_pct, locals.total_events)
           exact  == FromInt(100 * locals.parsed_events)
           gap    == IF LessFix(scaled, exact) THEN SubFix(exact, scaled)
                     ELSE SubFix(scaled, exact)
       IN \A i \in 1..5 : gap[i] = 0

\* One event of three parsed: a quotient no double holds exactly.
C6_Witness ==
  /\ Counted
  /\ locals.total_events = 3
  /\ locals.parsed_events = 1
  /\ locals.parsed_pct # ZeroFix
  /\ \E i \in 5..NLimbs : locals.parsed_pct[i] # 0

\* C7: the file path, the event names and the type names stand in the
\* document in escaped form only: no cell and no path shows a raw <, >, & or
\* quote, and unescaping gives back the text that was inserted.
C7_InsertedTextIsEscaped ==
  Rendered =>
    /\ MarkupFree(report_html.file)
    /\ Unescaped(report_html.file) = resolve(args.flp_file)
    /\ \A rows \in AllRows : \A i \in 1..Len(rows) :
         \A c \in 1..Len(rows[i].cells) : MarkupFree(rows[i].cells[c])
    /\ tables.types # <<>> =>
         \A i \in 1..Len(tables.types) :
           Unescaped(report_html.type_rows[i].cells[1]) = tables.types[i].key
    /\ tables.ids # <<>> =>
         \A i \in 1..Len(tables.ids) :
           /\ Unescaped(report_html.id_rows[i].cells[2]) = tables.ids[i].key[2]
           /\ Unescaped(report_html.id_rows[i].cells[3]) = tables.ids[i].key[3]

C7_Witness ==
  /\ Rendered
  /\ HasMarkup(args.flp_file)
  /\ \E i \in 1..Len(args.flp_file) : args.flp_file[i] = "\""
  /\ tables.ids # <<>>
  /\ \E i \in 1..Len(tables.ids) :
       HasMarkup(tables.ids[i].key[2]) /\ HasMarkup(tables.ids[i].key[3])

\* C8: a table without entries (nothing counted, or nothing left to show)
\* has exactly one row, the placeholder ("No events" for the type and id
\* tables, "None" for the two unknown tables), and a table with entries has
\* none; with no events at all the summary shows 0, 0, 0 and 0.00 and all
\* four tables show their placeholder.
C8_EmptyTableShowsPlaceholder ==
  Rendered =>
    /\ tables.types = <<>> <=>
         IsPlaceholder(report_html.type_rows, NoEventsText, 2)
    /\ tables.ids = <<>> <=> IsPlaceholder(report_html.id_rows, NoEventsText, 4)
    /\ tables.unknown_ids = <<>> <=>
         IsPlaceholder(report_html.unknown_top_level_rows, NoneText, 2)
    /\ tables.vst_ids = <<>> <=>
         IsPlaceholder(report_html.unknown_vst_rows, NoneText, 2)
    /\ locals.event_type_counts = <<>> =>
         IsPlaceholder(report_html.type_rows, NoEventsText, 2)
    /\ locals.top_level_id_counts = <<>> =>
         IsPlaceholder(report_html.id_rows, NoEventsText, 4)
    /\ locals.unknown_top_level_id_counts = <<>> =>
         IsPlaceholder(report_html.unknown_top_level_rows, NoneText, 2)
    /\ locals.unknown_vst_counts = <<>> =>
         IsPlaceholder(report_html.unknown_vst_rows, NoneText, 2)
    /\ \A rows \in AllRows : rows # <<>>
    /\ Len(events) = 0 =>
         /\ report_html.total_events = <<"0">>
         /\ report_html.parsed_events = <<"0">>
         /\ report_html.unknown_events = <<"0">>
         /\ report_html.parsed_pct = <<"0", ".", "0", "0">>
         /\ IsPlaceholder(report_html.type_rows, NoEventsText, 2)
         /\ IsPlaceholder(report_html.id_rows, NoEventsText, 4)
         /\ IsPlaceholder(report_html.unknown_top_level_rows, NoneText, 2)
         /\ IsPlaceholder(report_html.unknown_vst_rows, NoneText, 2)

\* Events, none unknown and none with a raw sub-event id: the two unknown
\* tables are empty beside two tables with rows.
C8_Witness ==
  /\ Rendered
  /\ args.top > 0
  /\ Len(events) > 0
  /\ locals.unknown_top_level_id_counts = <<>>
  /\ locals.unknown_vst_counts = <<>>
  /\ IsPlaceholder(report_html.unknown_vst_rows, NoneText, 2)
  /\ ~IsPlaceholder(report_html.type_rows, NoEventsText, 2)

\* C9: the nested tally holds exactly the sub-events with a raw numeric id of
\* the plugin events, in order; other events and plugin events without
\* sub-events add nothing, and the three top-level counts are those of the
\* events alone.
C9_NestedTallyOfContainersOnly ==
  Counted =>
    /\ Len(locals.unknown_vst_subevents) = Cardinality(NestedOccurrences)
    /\ \A k \in KeysOf(NestedOccurrences) :
         Cardinality({j \in 1..Len(locals.unknown_vst_subevents) :
                        locals.unknown_vst_subevents[j][1] = k})
           = CountOf(NestedOccurrences, k)
    /\ \A j \in 1..Len(locals.unknown_vst_subevents) :
         locals.unknown_vst_subevents[j][1] \in KeysOf(NestedOccurrences)
    /\ locals.total_events = Len(events)
    /\ Len(locals.unknown_top_level)
         = Cardinality({i \in 1..Len(events) : Opaque(events[i])})
    /\ locals.parsed_events = Len(events) - Len(locals.unknown_top_level)
    /\ Rendered =>
         report_html.vst_subevents = Str(Cardinality(NestedOccurrences))

\* A plugin event with sub-events, one without, and an event of another class
\* that carries a nested entry.
C9_Witness ==
  /\ Counted
  /\ \E i, j, k \in 1..Len(events) :
       /\ Container(events[i]) /\ events[i].events # <<>>
       /\ Container(events[j]) /\ events[j].events = <<>>
       /\ ~Container(events[k]) /\ events[k].events # <<>>

\* C10 as stated: for every accepted row limit a table shows its placeholder
\* only when nothing contributes to it, so with at least one event the type
\* table and the id table each show a real row.
C10_PlaceholderOnlyWhenNothingCounted ==
  Rendered =>
    /\ IsPlaceholder(report_html.type_rows, NoEventsText, 2) =>
         TypeOccurrences = {}
    /\ IsPlaceholder(report_html.id_rows, NoEventsText, 4) => IdOccurrences = {}
    /\ IsPlaceholder(report_html.unknown_top_level_rows, NoneText, 2) =>
         UnknownIdOccurrences = {}
    /\ IsPlaceholder(report_html.unknown_vst_rows, NoneText, 2) =>
         NestedOccurrences = {}
    /\ locals.total_events > 0 =>
         /\ ~IsPlaceholder(report_html.type_rows, NoEventsText, 2)
         /\ ~IsPlaceholder(report_html.id_rows, NoEventsText, 4)

====
